---- MODULE Spec2Model ----
(***************************************************************************)
(* A model of flax.nnx's Optimizer / PytreeOptimizer                       *)
(* (flax/nnx/training/optimizer.py) and of the lifted jit / shard_map      *)
(* wrappers (flax/nnx/transforms/compilation.py).                          *)
(*                                                                         *)
(* Variables are heap objects: the heap is a sequence of records and a     *)
(* Variable's identity is its index in the heap.  Trees are functions from *)
(* paths to leaves; a tree's shape is its DOMAIN.                          *)
(***************************************************************************)
EXTENDS Integers, Sequences, FiniteSets, TLC

(***************************************************************************)
(* Bounds of the model.                                                    *)
(***************************************************************************)
\* total number of update calls made on the two optimizers
MaxUpdates == 2

\* depth and number of leaves of the trees handed to to_opt_state
MaxDepth == 2

MaxLeaves == 2

\* graph nodes the caller holds, arguments of one wrapped call
NObjs == 2

MaxArgs == 2

\* wrapped calls made in one run, and how deep they nest
MaxCalls == 2

MaxNesting == 2

\* mutations the body of one call makes
MaxBodySteps == 1

\* (filter, sharding) pairs a StateSharding is built from
MaxPairs == 2

\* state trees of one extracted node
MaxStates == 2

VARIABLES
  heap,      \* the Variable objects: id -> [cls, value, meta]
  opt,       \* the Optimizer: [step, model, tx, opt_state, wrt], ids into heap
  popt,      \* the PytreeOptimizer: [step, tx, opt_state]
  pparams,   \* the params tree the caller passes to PytreeOptimizer.update
  log,       \* per optimizer: successful updates, last outcome, last grads
  born,      \* the Variable ids each optimizer held right after construction
  model0,    \* the values the model's Variables held right after construction
  treeIn,    \* the tree handed to to_opt_state
  treeOut,   \* the tree to_opt_state returned
  converted, \* whether to_opt_state has returned for treeIn
  objs,      \* the graph nodes: id -> the state the node holds
  frames,    \* the wrapped calls in progress, innermost last
  ctxs,      \* the update contexts in force, innermost last
  ret,       \* how the last wrapped call to end ended, until the next begins
  nCalls,    \* wrapped calls entered so far
  artifacts, \* the staged objects made so far: Traced, Lowered, Compiled
  sharding,  \* a StateSharding: [type, filters, shardings]
  other,     \* the object the StateSharding is compared with
  shOut,     \* the last operation made on the StateSharding and its outcome
  underlying, \* what each accessor of the jax.stages artifacts has to give
  stOut,     \* the last operation made on a staged object and its outcome
  mergeOut   \* the last call of the merge function and its outcome

optVars == <<heap, opt, popt, pparams, log, born, model0>>

treeVars == <<treeIn, treeOut, converted>>

jitVars == <<objs, frames, ctxs, ret, nCalls, artifacts>>

shardVars == <<sharding, other, shOut>>

stageVars == <<underlying, stOut>>

mergeVars == <<mergeOut>>

vars == <<optVars, treeVars, jitVars, shardVars, stageVars, mergeVars>>

\* what the actions of one part of the model leave alone
notOptVars == <<treeVars, jitVars, shardVars, stageVars, mergeVars>>

notTreeVars == <<optVars, jitVars, shardVars, stageVars, mergeVars>>

notJitVars == <<optVars, treeVars, shardVars, stageVars, mergeVars>>

notShardVars == <<optVars, treeVars, jitVars, stageVars, mergeVars>>

notStageVars == <<optVars, treeVars, jitVars, shardVars, mergeVars>>

notMergeVars == <<optVars, treeVars, jitVars, shardVars, stageVars>>

(***************************************************************************)
(* Leaves.  A Variable is a record [cls, value, meta]; a bare array is the *)
(* same record with cls = "Array" and no metadata.                         *)
(***************************************************************************)
Variable(cls, value, meta) == [cls |-> cls, value |-> value, meta |-> meta]

Array(value) == [cls |-> "Array", value |-> value, meta |-> {}]

\* isinstance(x, Variable)
IsVariable(x) == x.cls # "Array"

\* OptState(Variable) and its two subclasses
OptStateClasses == {"OptState", "OptArray", "OptVariable"}

OptArray(value) == Variable("OptArray", value, {})

OptVariable(value, meta) == Variable("OptVariable", value, meta)

EmptyTree == [p \in {} |-> Array(0)]

\* _to_opt_state, the leaf function of to_opt_state
LeafToOptState(x) ==
  IF IsVariable(x) THEN OptVariable(x.value, x.meta) ELSE OptArray(x.value)

(***************************************************************************)
(* jax.tree.map(_to_opt_state, tree, is_leaf = ...).  A Variable is itself *)
(* a pytree node with one child, its value: when is_leaf accepts it, it is *)
(* handed to the leaf function whole; otherwise the leaf function sees the *)
(* child and the Variable is rebuilt around the result.                    *)
(***************************************************************************)
TreeMapToOptState(tree, varIsLeaf) ==
  [p \in DOMAIN tree |->
     IF IsVariable(tree[p]) /\ ~varIsLeaf
       THEN [tree[p] EXCEPT !.value = LeafToOptState(Array(tree[p].value))]
       ELSE LeafToOptState(tree[p])]

\* to_opt_state without is_leaf: the map recurses into the Variables
ToOptStateRecursing(tree) == TreeMapToOptState(tree, FALSE)

\* to_opt_state(tree)
to_opt_state(tree) == TreeMapToOptState(tree, TRUE)

(***************************************************************************)
(* Helpers on sets, sequences and the heap.                                *)
(***************************************************************************)
RECURSIVE SeqOf(_)
SeqOf(S) ==
  IF S = {} THEN <<>>
  ELSE LET x == CHOOSE y \in S : TRUE IN <<x>> \o SeqOf(S \ {x})

IndexOf(s, x) == CHOOSE i \in 1..Len(s) : s[i] = x

Range(f) == {f[x] : x \in DOMAIN f}

\* Constructing the Variables of a tree of leaf records: each leaf becomes a
\* new heap object; the result tree holds the new ids.
AllocTree(h, tree) ==
  LET ps == SeqOf(DOMAIN tree)
  IN [heap |-> h \o [i \in 1..Len(ps) |-> tree[ps[i]]],
      refs |-> [p \in DOMAIN tree |-> Len(h) + IndexOf(ps, p)]]

\* the leaf records a tree of ids refers to
Deref(h, refs) == [p \in DOMAIN refs |-> h[refs[p]]]

(***************************************************************************)
(* The model of the docstring example of Optimizer.update: a Linear layer   *)
(* (kernel and bias are nnx.Param) and one CustomVariable.                  *)
(***************************************************************************)
Paths == {"kernel", "bias", "custom"}

VarType(p) == IF p = "custom" THEN "CustomVariable" ELSE "Param"

\* the metadata the layer declares on its Variables (a sharding hint on kernel)
VarMeta(p) == IF p = "kernel" THEN {<<"sharding", "model">>} ELSE {}

\* the wrt filters of the docstring example: nnx.Param, CustomVariable, both
Filters == {"Param", "CustomVariable", "ParamOrCustom"}

FilterMatch(wrt, cls) ==
  \/ wrt = cls
  \/ wrt = "ParamOrCustom" /\ cls \in {"Param", "CustomVariable"}

(***************************************************************************)
(* The graph-node collaborator (flax.nnx.graph / statelib).                *)
(***************************************************************************)
\* nnx.state(node, filter): the tree of the node's Variables the filter selects
State(h, node, filter) ==
  [p \in {q \in DOMAIN node : FilterMatch(filter, h[node[q]].cls)} |-> node[p]]

\* nnx.pure: every Variable leaf replaced by the bare value it holds
Pure(tree) == [p \in DOMAIN tree |-> Array(tree[p].value)]

\* nnx.freeze: an immutable view, the values are the same
Freeze(tree) == tree

\* nnx.update(node, state): writes each leaf's value into the existing Variable
\* at the same path, in place
Update(h, node, state) ==
  [i \in 1..Len(h) |->
     IF \E p \in DOMAIN state : p \in DOMAIN node /\ node[p] = i
       THEN LET p == CHOOSE q \in DOMAIN state : q \in DOMAIN node /\ node[q] = i
            IN [h[i] EXCEPT !.value = state[p].value]
       ELSE h[i]]

(***************************************************************************)
(* The gradient-transformation collaborator (optax), as four               *)
(* transformations over integer arrays:                                    *)
(*   scale        updates = -g, no state (sgd)                             *)
(*   trace        t' = t + g, updates = -t' (momentum)                     *)
(*   count_trace  trace with a step count in its state (adam's layout)     *)
(*   decay        updates = -(g + p), no state (weight decay)              *)
(*   linesearch   updates = -(g * value), no state: a                      *)
(*                GradientTransformationExtraArgs whose update takes the   *)
(*                keyword argument value                                   *)
(* The first four accept and ignore extra keyword arguments, as optax's    *)
(* chained optimizers do.                                                  *)
(***************************************************************************)
TxKinds == {"scale", "trace", "count_trace", "decay", "linesearch"}

\* jnp.zeros_like mapped over a tree: a Variable keeps its class and metadata
ZerosLike(x) == [x EXCEPT !.value = 0]

TracePaths(tree) == {<<"trace", p>> : p \in DOMAIN tree}

\* tx.init(params)
TxInit(tx, params) ==
  LET trace == [q \in TracePaths(params) |-> ZerosLike(params[q[2]])]
  IN CASE tx \in {"scale", "decay", "linesearch"} -> EmptyTree
       [] tx = "trace" -> trace
       [] tx = "count_trace" ->
            [q \in {<<"count">>} \cup DOMAIN trace |->
               IF q = <<"count">> THEN Array(0) ELSE trace[q]]

\* tx.update(grads, state, params, **kwargs) raises on trees that do not
\* match, and on a missing keyword argument
TxUpdateRaises(tx, g, s, p, k) ==
  CASE tx = "scale" -> FALSE
    [] tx = "decay" -> DOMAIN g # DOMAIN p
    [] tx = "linesearch" -> "value" \notin DOMAIN k
    [] OTHER -> TracePaths(g) # DOMAIN s \ {<<"count">>}

\* tx.update(grads, state, params, **kwargs) -> (updates, new_state)
TxUpdate(tx, g, s, p, k) ==
  LET newS == [q \in DOMAIN s |->
                 IF q = <<"count">> THEN Array(s[q].value + 1)
                 ELSE Array(s[q].value + g[q[2]].value)]
  IN CASE tx = "scale" ->
            [updates |-> [q \in DOMAIN g |-> Array(0 - g[q].value)], state |-> s]
       [] tx = "decay" ->
            [updates |-> [q \in DOMAIN g |-> Array(0 - (g[q].value + p[q].value))],
             state |-> s]
       [] tx = "linesearch" ->
            [updates |-> [q \in DOMAIN g |-> Array(0 - (g[q].value * k["value"].value))],
             state |-> s]
       [] OTHER ->
            [updates |-> [q \in DOMAIN g |-> Array(0 - newS[<<"trace", q>>].value)],
             state |-> newS]

\* optax.apply_updates(params, updates): jax.tree.map of p + u
ApplyUpdatesRaises(p, u) == DOMAIN p # DOMAIN u

ApplyUpdates(p, u) == [q \in DOMAIN p |-> Array(p[q].value + u[q].value)]

(***************************************************************************)
(* Optimizer and PytreeOptimizer.                                          *)
(***************************************************************************)
\* a step counter that is never advanced
StepNotIncremented(v) == v

\* self.step[...] += 1 on a jnp.uint32.  The counter wraps at 2^32, which no
\* run of at most MaxUpdates updates reaches (and which lies beyond TLC's
\* integers), so the increment is modelled below the wrap only.
StepIncrement(v) == v + 1

\* Optimizer.__init__ storing tx.init's tree as it is, without to_opt_state
OptimizerInitRaw(h, model, tx, wrt) ==
  LET h1 == Append(h, Variable("OptState", 0, {}))
      a  == AllocTree(h1, TxInit(tx, Deref(h1, State(h1, model, wrt))))
  IN [heap |-> a.heap,
      obj  |-> [step |-> Len(h1), model |-> model, tx |-> tx,
                opt_state |-> a.refs, wrt |-> wrt]]

\* Optimizer.__init__(model, tx, wrt); nnx.data only marks the attribute
OptimizerInit(h, model, tx, wrt) ==
  LET h1 == Append(h, Variable("OptState", 0, {}))
      a  == AllocTree(h1, to_opt_state(TxInit(tx, Deref(h1, State(h1, model, wrt)))))
  IN [heap |-> a.heap,
      obj  |-> [step |-> Len(h1), model |-> model, tx |-> tx,
                opt_state |-> a.refs, wrt |-> wrt]]

\* PytreeOptimizer.__init__(params, tx)
PytreeOptimizerInit(h, params, tx) ==
  LET h1 == Append(h, OptArray(0))
      a  == AllocTree(h1, to_opt_state(TxInit(tx, Freeze(Deref(h1, params)))))
  IN [heap |-> a.heap,
      obj  |-> [step |-> Len(h1), tx |-> tx, opt_state |-> a.refs]]

\* an update that takes the whole model state as params, whatever wrt is
OptimizerArraysUnfiltered(h, o, grads, kwargs) ==
  [params    |-> Freeze(Pure(Deref(h, o.model))),
   grads     |-> Freeze(Pure(grads)),
   opt_state |-> Freeze(Pure(Deref(h, o.opt_state))),
   kwargs    |-> Freeze(Pure(kwargs))]

\* Optimizer.update up to and including optax.apply_updates: the plain trees
\* handed to tx.update
OptimizerArrays(h, o, grads, kwargs) ==
  [params    |-> Freeze(Pure(Deref(h, State(h, o.model, o.wrt)))),
   grads     |-> Freeze(Pure(grads)),
   opt_state |-> Freeze(Pure(Deref(h, o.opt_state))),
   kwargs    |-> Freeze(Pure(kwargs))]

\* PytreeOptimizer.update: the trees handed to tx.update; kwargs is passed on
\* as the caller gave it
PytreeArrays(h, o, params, grads, kwargs) ==
  [params    |-> Freeze(Pure(Deref(h, params))),
   grads     |-> Freeze(Pure(grads)),
   opt_state |-> Freeze(Pure(Deref(h, o.opt_state))),
   kwargs    |-> kwargs]

\* which call of the numeric core raises, "" when none does
CoreRaises(tx, a) ==
  IF TxUpdateRaises(tx, a.grads, a.opt_state, a.params, a.kwargs) THEN "tx.update"
  ELSE IF ApplyUpdatesRaises(a.params,
            TxUpdate(tx, a.grads, a.opt_state, a.params, a.kwargs).updates)
    THEN "apply_updates"
  ELSE ""

\* a core that writes the updates back instead of apply_updates' result
CoreWithoutApply(tx, a) ==
  LET r == TxUpdate(tx, a.grads, a.opt_state, a.params, a.kwargs)
  IN [new_params |-> r.updates, new_opt_state |-> r.state]

\* (new_params, new_opt_state) of the numeric core
Core(tx, a) ==
  LET r == TxUpdate(tx, a.grads, a.opt_state, a.params, a.kwargs)
  IN [new_params |-> ApplyUpdates(a.params, r.updates), new_opt_state |-> r.state]

\* a write-back that rebinds self.opt_state to newly made Variables
OptimizerWriteBackRebinding(h, o, new_params, new_opt_state) ==
  LET h1 == Update(h, o.model, new_params)
      a  == AllocTree(h1, to_opt_state(new_opt_state))
  IN [heap |-> [a.heap EXCEPT ![o.step].value = StepIncrement(@)],
      obj  |-> [o EXCEPT !.opt_state = a.refs]]

\* the three writes that end Optimizer.update
OptimizerWriteBack(h, o, new_params, new_opt_state) ==
  LET h1 == Update(h, o.model, new_params)
      h2 == Update(h1, o.opt_state, new_opt_state)
  IN [heap |-> [h2 EXCEPT ![o.step].value = StepIncrement(@)], obj |-> o]

\* a write-back that maps over params and new_params only
PytreeWriteBackParamsOnly(h, o, params, new_params, new_opt_state) ==
  LET h1 == [i \in 1..Len(h) |->
               IF \E p \in DOMAIN params : params[p] = i
                 THEN [h[i] EXCEPT !.value =
                         new_params[CHOOSE p \in DOMAIN params : params[p] = i].value]
               ELSE h[i]]
  IN [heap |-> [h1 EXCEPT ![o.step].value = StepIncrement(@)], obj |-> o]

\* a write-back that maps over opt_state and new_opt_state only
PytreeWriteBackOptStateOnly(h, o, params, new_params, new_opt_state) ==
  LET h1 == [i \in 1..Len(h) |->
               IF \E q \in DOMAIN o.opt_state : o.opt_state[q] = i
                 THEN [h[i] EXCEPT !.value =
                         new_opt_state[CHOOSE q \in DOMAIN o.opt_state :
                                         o.opt_state[q] = i].value]
               ELSE h[i]]
  IN [heap |-> [h1 EXCEPT ![o.step].value = StepIncrement(@)], obj |-> o]

\* jax.tree.map(_update_variable, (params, self.opt_state),
\*              (new_params, new_opt_state), is_leaf=...) and the step increment
PytreeWriteBack(h, o, params, new_params, new_opt_state) ==
  LET h1 == [i \in 1..Len(h) |->
               IF \E p \in DOMAIN params : params[p] = i
                 THEN [h[i] EXCEPT !.value =
                         new_params[CHOOSE p \in DOMAIN params : params[p] = i].value]
               ELSE IF \E q \in DOMAIN o.opt_state : o.opt_state[q] = i
                 THEN [h[i] EXCEPT !.value =
                         new_opt_state[CHOOSE q \in DOMAIN o.opt_state :
                                         o.opt_state[q] = i].value]
               ELSE h[i]]
  IN [heap |-> [h1 EXCEPT ![o.step].value = StepIncrement(@)], obj |-> o]

\* the gradient trees a caller may pass: the output of nnx.grad for any of the
\* filters (so of the optimizer's shape or of another), all zero, all one or
\* mixed, as bare arrays, and as Variables holding them
GradVals(d) ==
  {[p \in d |-> 0], [p \in d |-> 1], [p \in d |-> IF p = "bias" THEN 0 ELSE 1]}

GradShapes == {{p \in Paths : FilterMatch(f, VarType(p))} : f \in Filters}

GradTrees ==
  UNION {{[p \in d |-> Array(v[p])] : v \in GradVals(d)}
           \cup {[p \in d |-> Variable(VarType(p), 1, {})]} : d \in GradShapes}

\* the extra keyword arguments a caller may pass: none, or value as a bare
\* array or as a Variable holding it
KwargsTrees ==
  {EmptyTree, [p \in {"value"} |-> Array(2)],
   [p \in {"value"} |-> Variable("Param", 2, {})]}

\* an update that calls tx.update again when it raised
TxInvocationsRetrying(raised) == IF raised = "tx.update" THEN 2 ELSE 1

\* the calls of self.tx.update one update makes: the one call site, in no
\* loop and no try block
TxInvocations(raised) == 1

Logged(l, raised, a, grads) ==
  [ok       |-> IF raised = "" THEN l.ok + 1 ELSE l.ok,
   calls    |-> l.calls + 1,
   raised   |-> raised,
   grads    |-> IF raised = "" THEN Pure(grads) ELSE l.grads,
   txCalls  |-> l.txCalls + TxInvocations(raised),
   tried    |-> DOMAIN grads,
   txKwargs |-> a.kwargs]

\* an update that advances step before it calls the transformation
OptimizerOutcomeSteppingFirst(h, o, a, raised) ==
  IF raised # ""
    THEN [heap |-> [h EXCEPT ![o.step].value = StepIncrement(@)], obj |-> o]
    ELSE LET c == Core(o.tx, a)
         IN OptimizerWriteBack(h, o, c.new_params, c.new_opt_state)

\* what Optimizer.update leaves behind: the three writes stand after
\* tx.update and apply_updates, so an error of either leaves before any write
OptimizerOutcome(h, o, a, raised) ==
  IF raised # ""
    THEN [heap |-> h, obj |-> o]
    ELSE LET c == Core(o.tx, a)
         IN OptimizerWriteBack(h, o, c.new_params, c.new_opt_state)

\* Optimizer.update(grads)
OptimizerUpdate(grads, kwargs) ==
  LET a      == OptimizerArrays(heap, opt, grads, kwargs)
      raised == CoreRaises(opt.tx, a)
  IN /\ log.O.calls + log.P.calls < MaxUpdates
     /\ LET w == OptimizerOutcome(heap, opt, a, raised)
        IN heap' = w.heap /\ opt' = w.obj
     /\ log' = [log EXCEPT !.O = Logged(@, raised, a, grads)]
     /\ UNCHANGED <<popt, pparams, born, model0, notOptVars>>

\* PytreeOptimizer.update(params, grads)
PytreeOptimizerUpdate(grads, kwargs) ==
  LET a      == PytreeArrays(heap, popt, pparams, grads, kwargs)
      raised == CoreRaises(popt.tx, a)
  IN /\ log.O.calls + log.P.calls < MaxUpdates
     /\ IF raised # ""
          THEN UNCHANGED <<heap, popt>>
          ELSE LET c == Core(popt.tx, a)
                   w == PytreeWriteBack(heap, popt, pparams, c.new_params,
                                        c.new_opt_state)
               IN heap' = w.heap /\ popt' = w.obj
     /\ log' = [log EXCEPT !.P = Logged(@, raised, a, grads)]
     /\ UNCHANGED <<opt, pparams, born, model0, notOptVars>>

\* the values the model's Variables start with
ModelVals ==
  {[kernel |-> 1, bias |-> 2, custom |-> 3], [kernel |-> 0, bias |-> 1, custom |-> 0]}

\* two models with the same Variables, one wrapped by an Optimizer, the other's
\* filtered state handed to a PytreeOptimizer with the same tx
ModelHeap(v) == [i \in 1..3 |->
                   LET p == SeqOf(Paths)[i] IN Variable(VarType(p), v[p], VarMeta(p))]

ModelRefs(base) == [p \in Paths |-> base + IndexOf(SeqOf(Paths), p)]

OptIds(h, o) == {o.step} \cup Range(o.opt_state)

InitOpt ==
  \E v \in ModelVals, tx \in TxKinds, wrt \in Filters :
    LET c1 == OptimizerInit(ModelHeap(v), ModelRefs(0), tx, wrt)
        h2 == c1.heap \o ModelHeap(v)
        ps == State(h2, ModelRefs(Len(c1.heap)), wrt)
        c2 == PytreeOptimizerInit(h2, ps, tx)
        l0 == [ok |-> 0, calls |-> 0, raised |-> "", grads |-> EmptyTree,
               txCalls |-> 0, tried |-> {}, txKwargs |-> EmptyTree]
    IN /\ heap = c2.heap
       /\ opt = c1.obj
       /\ popt = c2.obj
       /\ pparams = ps
       /\ log = [O |-> l0, P |-> l0]
       /\ born = [O |-> OptIds(c2.heap, c1.obj) \cup Range(c1.obj.model),
                  P |-> OptIds(c2.heap, c2.obj) \cup Range(ps)]
       /\ model0 = v

NextOpt ==
  \/ \E g \in GradTrees, k \in KwargsTrees : OptimizerUpdate(g, k)
  \/ \E g \in GradTrees, k \in KwargsTrees : PytreeOptimizerUpdate(g, k)

(***************************************************************************)
(* to_opt_state as a function of its input tree.                           *)
(***************************************************************************)
TreeKeys == {"mu", "nu"}

TreePaths == UNION {[1..n -> TreeKeys] : n \in 1..MaxDepth}

IsPrefix(s, t) == Len(s) < Len(t) /\ SubSeq(t, 1, Len(s)) = s

\* the shapes a tree can have: no leaf lies below another leaf
TreeShapes ==
  {d \in SUBSET TreePaths :
     /\ Cardinality(d) <= MaxLeaves
     /\ \A s \in d, t \in d : ~IsPrefix(s, t)}

\* bare arrays and Variables, with and without metadata
TreeLeaves ==
  {Array(v) : v \in {0, 1}}
    \cup {Variable("Param", v, {<<"sharding", "model">>}) : v \in {0, 1}}
    \cup {Variable("CustomVariable", v, {}) : v \in {0, 1}}

InputTrees == UNION {[d -> TreeLeaves] : d \in TreeShapes}

\* tree = to_opt_state(tree)
ToOptStateCall ==
  /\ ~converted
  /\ treeOut' = to_opt_state(treeIn)
  /\ converted' = TRUE
  /\ UNCHANGED <<treeIn, notTreeVars>>

InitTree == treeIn \in InputTrees /\ treeOut = EmptyTree /\ converted = FALSE

NextToOptState == ToOptStateCall

(***************************************************************************)
(* The lifted wrappers: one jit-wrapped function f (a JitWrapped) and one  *)
(* shard_map-wrapped function g.  A graph node is a heap object holding    *)
(* one state value; its extracted representation (NodeStates) is a record  *)
(* [index, value]: index stands for the descriptor's reference to a node   *)
(* the context knows (0: none), value for the state trees.                 *)
(***************************************************************************)
Vals == {0, 1}

\* the entry points that open an update context, each with its wrapper
Entries ==
  {<<"call", "f">>, <<"eval_shape", "f">>, <<"trace", "f">>, <<"lower", "f">>,
   <<"compiled", "f">>, <<"shard_map", "g">>}

\* the entry points whose underlying call runs the Python body (JitFn /
\* ShardMapFn); a Compiled runs its executable
RunsBody(kind) == kind # "compiled"

\* the entry points that merge the outputs back (trace and lower return a
\* staged object instead)
Merges(kind) == kind \notin {"trace", "lower"}

NodeStates(index, value) == [index |-> index, value |-> value]

Last(s) == s[Len(s)]

Pop(s) == SubSeq(s, 1, Len(s) - 1)

\* the first occurrences of a sequence's elements, in order
RECURSIVE Dedup(_)
Dedup(s) ==
  IF s = <<>> THEN <<>>
  ELSE LET d == Dedup(Pop(s))
       IN IF Last(s) \in Range(d) THEN d ELSE Append(d, Last(s))

(***************************************************************************)
(* The graph-node collaborator: update contexts, to_tree and from_tree.    *)
(***************************************************************************)
\* graph.update_context(tag).__enter__: a new context for tag
ContextEnter(cs, tag, owner) ==
  Append(cs, [tag |-> tag, owner |-> owner, refs |-> <<>>, inner |-> <<>>])

\* graph.update_context(tag).__exit__: the innermost context is discarded
ContextExit(cs) == Pop(cs)

\* the context in force for a tag: the innermost one opened for it, 0 if none
CurrentContext(cs, tag) ==
  IF \E i \in 1..Len(cs) : cs[i].tag = tag
    THEN CHOOSE i \in 1..Len(cs) :
           cs[i].tag = tag /\ \A j \in 1..Len(cs) : cs[j].tag = tag => j <= i
    ELSE 0

\* extract.to_tree(nodes, ctxtag=tag, split_fn=_jit_split_fn): on the way in it
\* numbers the nodes (the same node gets the same index wherever it occurs) and
\* the context keeps index -> node; on the way out of the body it gives each
\* node the index it came in with, 0 when it was made inside
ToTree(cs, o, ids, tag) ==
  LET k == CurrentContext(cs, tag)
  IN IF k = 0
       THEN [ctxs |-> cs, pure |-> [i \in 1..Len(ids) |-> NodeStates(0, o[ids[i]])]]
     ELSE IF cs[k].inner = <<>>
       THEN LET refs == Dedup(cs[k].refs \o ids)
            IN [ctxs |-> [cs EXCEPT ![k].refs = refs],
                pure |-> [i \in 1..Len(ids) |->
                            NodeStates(IndexOf(refs, ids[i]), o[ids[i]])]]
     ELSE [ctxs |-> cs,
           pure |-> [i \in 1..Len(ids) |->
                       NodeStates(IF ids[i] \in Range(cs[k].inner)
                                    THEN IndexOf(cs[k].inner, ids[i]) ELSE 0,
                                  o[ids[i]])]]

\* the positions of pure whose node from_tree has to make: every node on the
\* way in, on the way out those the context does not know
MakesNode(cs, k, pure, is_inner, i) ==
  \/ k = 0
  \/ is_inner
  \/ pure[i].index = 0
  \/ pure[i].index > Len(cs[k].refs)

\* the first position that stands for the same node as position i
FirstOf(pure, i) ==
  IF pure[i].index = 0 THEN i
  ELSE CHOOSE j \in 1..i :
         pure[j].index = pure[i].index /\ \A l \in 1..j : pure[l].index = pure[i].index => l = j

MaxIndex(pure) ==
  IF pure = <<>> THEN 0
  ELSE CHOOSE m \in {pure[i].index : i \in 1..Len(pure)} :
         \A i \in 1..Len(pure) : pure[i].index <= m

\* extract.from_tree(pure, ctxtag=tag, merge_fn=_jit_merge_fn, is_inner=...):
\* with is_inner it makes new nodes holding the extracted state and the context
\* keeps index -> inner node; without it writes the state into the node the
\* context holds for the index and yields that node
FromTree(cs, o, pure, tag, is_inner) ==
  LET k     == CurrentContext(cs, tag)
      made  == SelectSeq([i \in 1..Len(pure) |-> i],
                         LAMBDA i : MakesNode(cs, k, pure, is_inner, i)
                                      /\ FirstOf(pure, i) = i)
      idOf(i) == IF MakesNode(cs, k, pure, is_inner, i)
                   THEN Len(o) + IndexOf(made, FirstOf(pure, i))
                   ELSE cs[k].refs[pure[i].index]
      o1    == [j \in 1..Len(o) |->
                 IF \E i \in 1..Len(pure) : idOf(i) = j
                   THEN pure[CHOOSE i \in 1..Len(pure) : idOf(i) = j].value
                   ELSE o[j]]
      o2    == o1 \o [n \in 1..Len(made) |-> pure[made[n]].value]
      inner == [j \in 1..MaxIndex(pure) |->
                 IF \E i \in 1..Len(pure) : pure[i].index = j
                   THEN idOf(CHOOSE i \in 1..Len(pure) : pure[i].index = j)
                   ELSE 0]
  IN [ctxs |-> IF k # 0 /\ is_inner THEN [cs EXCEPT ![k].inner = inner] ELSE cs,
      objs |-> o2,
      ids  |-> [i \in 1..Len(pure) |-> idOf(i)]]

\* graph.clone((args, kwargs)): a copy of every node, shared nodes stay shared
Clone(o, ids) ==
  LET d == Dedup(ids)
  IN [objs |-> o \o [n \in 1..Len(d) |-> o[d[n]]],
      ids  |-> [i \in 1..Len(ids) |-> Len(o) + IndexOf(d, ids[i])]]

(***************************************************************************)
(* What the wrappers of compilation.py decide.                             *)
(***************************************************************************)
\* a with statement that opens the context for another object than the
\* wrapper, the inner jitted function
WithTagJittedFn(fn) == "jitted_fn"

\* the tag of "with graph.update_context(...)": JitWrapped passes self,
\* Compiled self.jit_wrapped, shard_map its wrapper
WithTag(fn) == fn

\* the ctxtag a wrapper passes to to_tree and from_tree: the same object
CtxTag(fn) == fn

\* the ctxtag JitFn / ShardMapFn were constructed with: none
InnerCtxTagNone(fn) == "None"

\* the ctxtag JitFn / ShardMapFn were constructed with: the wrapper itself
InnerCtxTag(fn) == fn

\* an outward merge that passes is_inner=True
OuterIsInnerTrue == TRUE

\* the is_inner the wrappers pass to from_tree on the way out
OuterIsInner == FALSE

\* a with block left without releasing the context when an error propagates
WithExitLeaking(cs, raised) == IF raised THEN cs ELSE ContextExit(cs)

\* leaving "with graph.update_context(...)": the context manager's exit runs on
\* normal return and on a propagating error alike
WithExit(cs, raised) == ContextExit(cs)

\* JitWrapped._get_pure_args_kwargs / the to_tree of shard_map_wrapper
GetPureArgs(cs, o, fr) == ToTree(cs, o, fr.passed, CtxTag(fr.fn))

\* JitWrapped._get_non_pure_out / the from_tree that ends shard_map_wrapper:
\* merges (pure_args_out, pure_kwargs_out, pure_out)
GetNonPureOut(cs, o, fr) ==
  FromTree(cs, o, fr.pureOut, CtxTag(fr.fn), OuterIsInner)

Top == Last(frames)

SetTop(fr) == [frames EXCEPT ![Len(frames)] = fr]

\* the nodes a new call can be given: the caller's at top level, the body's
\* arguments in a nested call
Visible ==
  IF frames = <<>> THEN 1..NObjs ELSE Range(Top.inner)

ArgLists == UNION {[1..n -> Visible] : n \in 1..MaxArgs}

\* an eval_shape that works on the caller's own objects
ClonesArgsNever(kind) == FALSE

\* the entry points that begin with args, kwargs = graph.clone((args, kwargs)):
\* eval_shape alone
ClonesArgs(kind) == kind = "eval_shape"

\* the record of a from_tree in a call's trace
FromTreeStep(is_inner) ==
  IF is_inner THEN "from_tree(is_inner=True)" ELSE "from_tree(is_inner=False)"

\* a wrapper that merges right after the split, before the call
MergeAtSplit == "split"

\* where the wrapper's merge stands: after the call of the underlying function
\* has returned
MergeAt == "called"

\* a wrapper that calls the underlying function a second time
AfterCallInvokingAgain(fr) ==
  IF Len(fr.trace) < 4 THEN "split" ELSE "called"

\* where the wrapper stands when the underlying function has returned: the one
\* call is over
AfterCall(fr) == "called"

\* no wrapped call has ended since the last one began
NoRet == [kind |-> "", raised |-> FALSE, result |-> 0]

\* entering a wrapped call: the with statement opens the context
\* (eval_shape clones its arguments first)
Enter(kind, fn, args) ==
  /\ nCalls < MaxCalls
  /\ Len(frames) < MaxNesting
  /\ frames # <<>> => Top.pc = "body"
  /\ kind = "compiled" => "Compiled" \in artifacts
  /\ LET c == IF ClonesArgs(kind) THEN Clone(objs, args)
              ELSE [objs |-> objs, ids |-> args]
     IN /\ objs' = c.objs
        /\ frames' = Append(frames,
             [id |-> nCalls + 1, kind |-> kind, fn |-> fn, args |-> args,
              base |-> Len(objs), passed |-> c.ids, pc |-> "entered", pure |-> <<>>, inner |-> <<>>,
              steps |-> 0, out |-> 0, pureOut |-> <<>>, merged |-> <<>>,
              result |-> 0, trace |-> <<>>])
  /\ ctxs' = ContextEnter(ctxs, WithTag(fn), nCalls + 1)
  /\ nCalls' = nCalls + 1
  /\ ret' = NoRet
  /\ UNCHANGED <<artifacts, notJitVars>>

\* SPLIT: pure_args, pure_kwargs = to_tree((args, kwargs), ...)
Split ==
  /\ frames # <<>> /\ Top.pc = "entered"
  /\ LET t == GetPureArgs(ctxs, objs, Top)
     IN /\ ctxs' = t.ctxs
        /\ frames' = SetTop([Top EXCEPT !.pure = t.pure, !.pc = "split",
                                        !.trace = Append(@, "to_tree")])
  /\ UNCHANGED <<objs, ret, nCalls, artifacts, notJitVars>>

\* JitFn.__call__ / ShardMapFn.__call__, first statement: from_tree(..., is_inner=True)
InnerMerge ==
  /\ frames # <<>> /\ Top.pc = "split" /\ RunsBody(Top.kind)
  /\ LET m == FromTree(ctxs, objs, Top.pure, InnerCtxTag(Top.fn), TRUE)
     IN /\ ctxs' = m.ctxs
        /\ objs' = m.objs
        /\ frames' = SetTop([Top EXCEPT !.inner = m.ids, !.pc = "body",
                                        !.trace = Append(@, FromTreeStep(TRUE))])
  /\ UNCHANGED <<ret, nCalls, artifacts, notJitVars>>

\* the body of the user's function mutates one of its arguments
BodyMutate(i, v) ==
  /\ frames # <<>> /\ Top.pc = "body"
  /\ Top.steps < MaxBodySteps
  /\ i \in 1..Len(Top.inner)
  /\ objs[Top.inner[i]] # v
  /\ objs' = [objs EXCEPT ![Top.inner[i]] = v]
  /\ frames' = SetTop([Top EXCEPT !.steps = @ + 1])
  /\ UNCHANGED <<ctxs, ret, nCalls, artifacts, notJitVars>>

\* the user's function returns one of its arguments (i > 0) or nothing (i = 0)
BodyReturn(i) ==
  /\ frames # <<>> /\ Top.pc = "body"
  /\ i \in 0..Len(Top.inner)
  /\ frames' = SetTop([Top EXCEPT !.out = i, !.pc = "returned",
                                  !.trace = Append(@, "f")])
  /\ UNCHANGED <<objs, ctxs, ret, nCalls, artifacts, notJitVars>>

\* the user's function returns a node it made itself
BodyReturnNew(v) ==
  /\ frames # <<>> /\ Top.pc = "body"
  /\ objs' = Append(objs, v)
  /\ frames' = SetTop([Top EXCEPT !.inner = Append(@, Len(objs) + 1),
                                  !.out = Len(Top.inner) + 1, !.pc = "returned",
                                  !.trace = Append(@, "f")])
  /\ UNCHANGED <<ctxs, ret, nCalls, artifacts, notJitVars>>

\* JitFn.__call__ / ShardMapFn.__call__, last statement: to_tree((args_out,
\* kwargs_out, out), ...); the arguments come first, the output last
InnerSplit ==
  /\ frames # <<>> /\ Top.pc = "returned"
  /\ LET n   == Len(Top.passed)
         ids == SubSeq(Top.inner, 1, n)
                  \o (IF Top.out = 0 THEN <<>> ELSE <<Top.inner[Top.out]>>)
         t   == ToTree(ctxs, objs, ids, InnerCtxTag(Top.fn))
     IN /\ ctxs' = t.ctxs
        /\ frames' = SetTop([Top EXCEPT !.pureOut = t.pure,
                                        !.pc = AfterCall(Top),
                                        !.trace = Append(@, "to_tree")])
  /\ UNCHANGED <<objs, ret, nCalls, artifacts, notJitVars>>

\* Compiled.__call__: self.compiled(*pure_args, **pure_kwargs) runs the
\* executable; upd gives the state it computes for each node, i the argument
\* it returns (0: none)
RunCompiled(upd, i) ==
  /\ frames # <<>> /\ Top.pc = "split" /\ ~RunsBody(Top.kind)
  /\ i \in 0..Len(Top.pure)
  /\ LET outs == [j \in 1..Len(Top.pure) |->
                    NodeStates(Top.pure[j].index, upd[Top.pure[j].index])]
     IN frames' = SetTop([Top EXCEPT
          !.out = i,
          !.pureOut = outs \o (IF i = 0 THEN <<>> ELSE <<outs[i]>>),
          !.pc = "called",
          !.trace = Append(@, "compiled")])
  /\ UNCHANGED <<objs, ctxs, ret, nCalls, artifacts, notJitVars>>

\* MERGE: out = from_tree((pure_args_out, pure_kwargs_out, pure_out), ...,
\* is_inner=False); out is the last component
Merge ==
  /\ frames # <<>> /\ Top.pc = MergeAt /\ Merges(Top.kind)
  /\ LET m == GetNonPureOut(ctxs, objs, Top)
     IN /\ ctxs' = m.ctxs
        /\ objs' = m.objs
        /\ frames' = SetTop([Top EXCEPT
             !.merged = m.ids,
             !.result = IF Top.out = 0 THEN 0 ELSE Last(m.ids),
             !.pc = "merged",
             !.trace = Append(@, FromTreeStep(OuterIsInner))])
  /\ UNCHANGED <<ret, nCalls, artifacts, notJitVars>>

\* a call that ended hands its caller the result or the error
Ended(fr, raised) ==
  [kind |-> fr.kind, raised |-> raised,
   result |-> IF raised THEN 0
              ELSE IF fr.result > fr.base THEN fr.base + 1 ELSE fr.result]

\* the nodes that outlive a call: those that existed when it was entered and
\* the node it returns; the clones and the body's nodes are garbage
Surviving(o, fr, raised) ==
  SubSeq(o, 1, fr.base)
    \o (IF ~raised /\ fr.result > fr.base THEN <<o[fr.result]>> ELSE <<>>)

\* RETURN: the with block is left and out (or the staged object) returned
Return ==
  /\ frames # <<>>
  /\ \/ Top.pc = "merged"
     \/ Top.pc = "called" /\ ~Merges(Top.kind)
  /\ ctxs' = WithExit(ctxs, FALSE)
  /\ frames' = Pop(frames)
  /\ ret' = Ended(Top, FALSE)
  /\ artifacts' = artifacts \cup
       (CASE Top.kind = "trace" -> {"Traced"}
          [] Top.kind = "lower" -> {"Lowered"}
          [] OTHER -> {})
  /\ objs' = Surviving(objs, Top, FALSE)
  /\ UNCHANGED <<nCalls, notJitVars>>

\* the split, the underlying call, the body or the merge raises, or an error
\* of a nested call arrives: the error leaves the with block and reaches the
\* caller, whose body lets it pass or catches it
Raise(caught) ==
  /\ frames # <<>>
  /\ \/ Top.pc \in {"entered", "split", "body", "returned", "error"}
     \/ Top.pc = "called" /\ Merges(Top.kind)
  /\ ctxs' = WithExit(ctxs, TRUE)
  /\ frames' = IF Len(frames) = 1 THEN <<>>
               ELSE [Pop(frames) EXCEPT ![Len(frames) - 1].pc =
                       IF caught THEN "body" ELSE "error"]
  /\ ret' = Ended(Top, TRUE)
  /\ objs' = Surviving(objs, Top, TRUE)
  /\ UNCHANGED <<nCalls, artifacts, notJitVars>>

\* Traced.lower()
TracedLower ==
  /\ frames = <<>>
  /\ "Traced" \in artifacts /\ "Lowered" \notin artifacts
  /\ artifacts' = artifacts \cup {"Lowered"}
  /\ UNCHANGED <<objs, frames, ctxs, ret, nCalls, notJitVars>>

\* Lowered.compile()
LoweredCompile ==
  /\ frames = <<>>
  /\ "Lowered" \in artifacts /\ "Compiled" \notin artifacts
  /\ artifacts' = artifacts \cup {"Compiled"}
  /\ UNCHANGED <<objs, frames, ctxs, ret, nCalls, notJitVars>>

InitJit ==
  /\ objs = [i \in 1..NObjs |-> 0]
  /\ frames = <<>>
  /\ ctxs = <<>>
  /\ ret = NoRet
  /\ nCalls = 0
  /\ artifacts = {}

NextJit ==
  \/ \E e \in Entries : \E args \in ArgLists : Enter(e[1], e[2], args)
  \/ Split
  \/ InnerMerge
  \/ \E i \in 1..MaxArgs, v \in Vals : BodyMutate(i, v)
  \/ \E i \in 0..MaxArgs : BodyReturn(i)
  \/ \E v \in Vals : BodyReturnNew(v)
  \/ InnerSplit
  \/ \E upd \in [1..MaxArgs -> Vals], i \in 0..MaxArgs : RunCompiled(upd, i)
  \/ Merge
  \/ Return
  \/ \E caught \in BOOLEAN : Raise(caught)
  \/ TracedLower
  \/ LoweredCompile

(***************************************************************************)
(* StateSharding: an ordered tuple of filters and the tuple of shardings   *)
(* paired with them.                                                       *)
(***************************************************************************)
\* the filters of a StateSharding: two Variable types and a path filter
ShardFilters == {"Param", "ParamOrCustom", "PathKernel"}

\* the shardings paired with them: partition specs
ShardSpecs == {"P(data)", "P(None)"}

PairLists == UNION {[1..n -> ShardFilters \X ShardSpecs] : n \in 0..MaxPairs}

\* filterlib.to_predicate(filter)(path, variable)
ToPredicate(filter, path, variable) ==
  IF filter = "PathKernel" THEN path = "kernel"
  ELSE FilterMatch(filter, variable.cls)

\* StateSharding(iterable of (filter, sharding) pairs)
StateShardingInit(iterable) ==
  [type      |-> "StateSharding",
   filters   |-> [i \in 1..Len(iterable) |-> iterable[i][1]],
   shardings |-> [i \in 1..Len(iterable) |-> iterable[i][2]]]

\* a map_prefix that keeps looking after a match: the last match wins
MapPrefixLastMatch(self, path, variable) ==
  LET hits == {i \in 1..Len(self.filters) :
                 ToPredicate(self.filters[i], path, variable)}
  IN IF hits = {}
       THEN [raised |-> "ValueError", path |-> path, variable |-> variable]
       ELSE [raised |-> "",
             value |-> self.shardings[CHOOSE i \in hits : \A j \in hits : j <= i]]

\* StateSharding.map_prefix(path, variable): the loop returns at the first
\* filter whose predicate holds and raises after a loop without a match
MapPrefix(self, path, variable) ==
  LET hits == {i \in 1..Len(self.filters) :
                 ToPredicate(self.filters[i], path, variable)}
  IN IF hits = {}
       THEN [raised |-> "ValueError", path |-> path, variable |-> variable]
       ELSE [raised |-> "",
             value |-> self.shardings[CHOOSE i \in hits : \A j \in hits : i <= j]]

\* an __eq__ that compares the filters only
StateShardingEqFiltersOnly(self, o) ==
  /\ o.type = "StateSharding"
  /\ self.filters = o.filters

\* StateSharding.__eq__(other)
StateShardingEq(self, o) ==
  /\ o.type = "StateSharding"
  /\ self.filters = o.filters
  /\ self.shardings = o.shardings

\* hash of a tuple: a fold of the hashes of its items into a machine word
\* (here 10 bits), so that different tuples can collide
RECURSIVE TupleHash(_)
TupleHash(t) ==
  IF t = <<>> THEN 7
  ELSE (TupleHash(Pop(t)) * 31 + Last(t)) % 1024

\* hash of a filter or a sharding
ItemHash(x) == IndexOf(SeqOf(ShardFilters \cup ShardSpecs), x)

\* StateSharding.__hash__()
StateShardingHash(self) ==
  TupleHash(<<TupleHash([i \in 1..Len(self.filters) |-> ItemHash(self.filters[i])]),
              TupleHash([i \in 1..Len(self.shardings) |-> ItemHash(self.shardings[i])])>>)

\* the objects a StateSharding is compared with: the StateShardings, and a
\* plain dict of its own pairs
Others(self) ==
  {StateShardingInit(ps) : ps \in PairLists} \cup {[self EXCEPT !.type = "dict"]}

\* sharding.map_prefix(path, variable) for a Variable of the model
MapPrefixCall(path) ==
  LET variable == Variable(VarType(path), 0, VarMeta(path))
  IN /\ shOut' = [op |-> "map_prefix", path |-> path, variable |-> variable,
                  out |-> MapPrefix(sharding, path, variable)]
     /\ UNCHANGED <<sharding, other, notShardVars>>

\* sharding == other
EqCall ==
  /\ shOut' = [op |-> "eq", out |-> StateShardingEq(sharding, other)]
  /\ UNCHANGED <<sharding, other, notShardVars>>

\* hash(sharding), hash(other) for another StateSharding
HashCall ==
  /\ other.type = "StateSharding"
  /\ shOut' = [op |-> "hash", out |-> <<StateShardingHash(sharding),
                                        StateShardingHash(other)>>]
  /\ UNCHANGED <<sharding, other, notShardVars>>

InitSharding ==
  /\ sharding \in {StateShardingInit(ps) : ps \in PairLists}
  /\ other \in Others(sharding)
  /\ shOut = [op |-> ""]

NextSharding ==
  \/ \E path \in Paths : MapPrefixCall(path)
  \/ EqCall
  \/ HashCall

(***************************************************************************)
(* The staged objects Lowered and Compiled: each wraps an artifact of      *)
(* jax.stages and the JitWrapped it came from.                             *)
(***************************************************************************)
\* the inspection accessors of the two staged objects
Accessors ==
  {<<"Lowered", "as_text">>, <<"Lowered", "compiler_ir">>,
   <<"Lowered", "cost_analysis">>,
   <<"Compiled", "as_text">>, <<"Compiled", "cost_analysis">>,
   <<"Compiled", "memory_analysis">>, <<"Compiled", "runtime_executable">>}

\* the args_info property of the two staged objects
ArgsInfoProps == {<<"Lowered", "args_info">>, <<"Compiled", "args_info">>}

Dialects == {"None", "hlo"}

\* the arguments an accessor takes, with the defaults of its signature
AccessorArgs(acc) ==
  CASE acc = <<"Lowered", "as_text">> ->
         {[dialect |-> d, debug_info |-> b] : d \in Dialects, b \in BOOLEAN}
    [] acc = <<"Lowered", "compiler_ir">> -> {[dialect |-> d] : d \in Dialects}
    [] OTHER -> {<<>>}

\* the accessor of the jax.stages artifact: None when the backend has nothing
\* to give, otherwise a value that depends on the arguments; out is a tuple,
\* empty when nothing is returned
UnderlyingCall(u, acc, args) ==
  IF u[acc] = "None" THEN [raised |-> "", out |-> <<"None">>]
  ELSE [raised |-> "", out |-> <<u[acc], args>>]

\* a Lowered.as_text that does not pass debug_info on
StageAccessDroppingDebugInfo(u, acc, args) ==
  CASE acc = <<"Lowered", "as_text">> ->
         UnderlyingCall(u, acc, [dialect |-> args.dialect, debug_info |-> FALSE])
    [] OTHER -> UnderlyingCall(u, acc, args)

\* the accessors of Lowered and Compiled: each returns the call of the same
\* accessor of self.lowered / self.compiled with the arguments it was given
StageAccess(u, acc, args) ==
  CASE acc = <<"Lowered", "as_text">> ->
         UnderlyingCall(u, acc, [dialect |-> args.dialect,
                                 debug_info |-> args.debug_info])
    [] acc = <<"Lowered", "compiler_ir">> ->
         UnderlyingCall(u, acc, [dialect |-> args.dialect])
    [] OTHER -> UnderlyingCall(u, acc, <<>>)

\* the staged operations that are not supported
UnsupportedOps == {<<"Lowered", "from_flat_info">>, <<"Compiled", "call">>}

\* the arguments they are called with: from_flat_info's no_kwargs flag and
\* donate_argnums, call's positional arguments
UnsupportedArgs(op) ==
  IF op = <<"Lowered", "from_flat_info">>
    THEN {[no_kwargs |-> b, donate_argnums |-> d] : b \in BOOLEAN, d \in {<<>>, <<0>>}}
    ELSE {<<>>, <<1>>, <<1, 2>>}

\* an unsupported operation that returns None for a call without arguments
UnsupportedReturningNone(op, args) ==
  IF args = <<>> THEN [raised |-> "", out |-> <<"None">>]
  ELSE [raised |-> "NotImplementedError", out |-> <<>>]

\* Lowered.from_flat_info and Compiled.call: raise NotImplementedError
Unsupported(op, args) == [raised |-> "NotImplementedError", out |-> <<>>]

\* the raise statement: an object that is no exception cannot be raised, the
\* statement raises TypeError in its place
RaiseStatement(value) == [raised |-> "TypeError", out |-> <<>>]

\* Lowered.args_info returns self.lowered.args_info; Compiled.args_info has
\* raise where Lowered has return
ArgsInfo(u, prop) ==
  IF prop = <<"Lowered", "args_info">>
    THEN UnderlyingCall(u, prop, <<>>)
    ELSE RaiseStatement(UnderlyingCall(u, prop, <<>>).out)

\* staged.args_info
ReadArgsInfo(prop) ==
  /\ stOut' = [op |-> prop, args |-> <<>>, res |-> ArgsInfo(underlying, prop)]
  /\ UNCHANGED <<underlying, notStageVars>>

\* staged.accessor(args)
Access(acc, args) ==
  /\ stOut' = [op |-> acc, args |-> args, res |-> StageAccess(underlying, acc, args)]
  /\ UNCHANGED <<underlying, notStageVars>>

\* Lowered.from_flat_info(...), Compiled.call(...)
CallUnsupported(op, args) ==
  /\ stOut' = [op |-> op, args |-> args, res |-> Unsupported(op, args)]
  /\ UNCHANGED <<underlying, notStageVars>>

InitStage ==
  /\ underlying \in [Accessors \cup ArgsInfoProps -> {"None", "text"}]
  /\ stOut = [op |-> <<>>, args |-> <<>>, res |-> <<>>]

NextStage ==
  \/ \E acc \in Accessors : \E args \in AccessorArgs(acc) : Access(acc, args)
  \/ \E op \in UnsupportedOps : \E args \in UnsupportedArgs(op) :
       CallUnsupported(op, args)
  \/ \E prop \in ArgsInfoProps : ReadArgsInfo(prop)

(***************************************************************************)
(* _jit_merge_fn, the merge function jit and shard_map hand to from_tree.  *)
(***************************************************************************)
GraphDefs == {"Linear", "Counter"}

StateTrees == UNION {[1..n -> 0..2] : n \in 1..MaxStates}

\* the leaves from_tree can meet at a path: extracted nodes, and values that
\* are none
MergeLeaves ==
  {[type |-> "NodeStates", graphdef |-> g, states |-> st] :
     g \in GraphDefs, st \in StateTrees}
    \cup {[type |-> t, graphdef |-> "", states |-> <<>>] :
            t \in {"ArrayImpl", "int", "Linear"}}

MergePaths == {<<0>>, <<0, "a">>, <<1>>, <<1, "b">>}

\* ctx.unflatten(graphdef, *states): the node the descriptor and the state
\* trees describe
Unflatten(graphdef, states) ==
  [type |-> graphdef, states |-> states]

\* a merge function that hands unflatten the first state tree only
JitMergeFnFirstState(path, leaf) ==
  IF leaf.type # "NodeStates"
    THEN [raised |-> "ValueError", type |-> leaf.type, path |-> path]
    ELSE [raised |-> "", out |-> Unflatten(leaf.graphdef, <<leaf.states[1]>>)]

\* _jit_merge_fn(ctx, path, prefix, leaf)
JitMergeFn(path, leaf) ==
  IF leaf.type # "NodeStates"
    THEN [raised |-> "ValueError", type |-> leaf.type, path |-> path]
    ELSE [raised |-> "", out |-> Unflatten(leaf.graphdef, leaf.states)]

JitMergeFnCall(path, leaf) ==
  /\ mergeOut' = [path |-> path, leaf |-> leaf, res |-> JitMergeFn(path, leaf)]
  /\ UNCHANGED notMergeVars

InitMergeFn == mergeOut = [path |-> <<>>, leaf |-> <<>>, res |-> <<>>]

NextMergeFn == \E path \in MergePaths, leaf \in MergeLeaves : JitMergeFnCall(path, leaf)

\* the parts of the state a specification does not use
ShardIdle == sharding = <<>> /\ other = <<>> /\ shOut = <<>>

StageIdle == underlying = <<>> /\ stOut = <<>>

MergeIdle == mergeOut = <<>>

OptIdle ==
  /\ heap = <<>> /\ opt = <<>> /\ popt = <<>> /\ pparams = <<>>
  /\ log = <<>> /\ born = <<>> /\ model0 = <<>>

TreeIdle == treeIn = EmptyTree /\ treeOut = EmptyTree /\ converted = FALSE

JitIdle ==
  /\ objs = <<>> /\ frames = <<>> /\ ctxs = <<>> /\ ret = <<>>
  /\ nCalls = 0 /\ artifacts = {}

\* the two optimizers under arbitrary update calls
InitSpecOpt == InitOpt /\ TreeIdle /\ JitIdle /\ ShardIdle /\ StageIdle /\ MergeIdle

SpecOpt == InitSpecOpt /\ [][NextOpt]_vars

\* to_opt_state on arbitrary trees
InitSpecTree == InitTree /\ OptIdle /\ JitIdle /\ ShardIdle /\ StageIdle /\ MergeIdle

SpecTree == InitSpecTree /\ [][NextToOptState]_vars

\* wrapped calls of f and g, nested and in sequence
InitSpecJit == InitJit /\ OptIdle /\ TreeIdle /\ ShardIdle /\ StageIdle /\ MergeIdle

SpecJit == InitSpecJit /\ [][NextJit]_vars

\* a StateSharding resolved, compared and hashed
InitSpecSharding ==
  InitSharding /\ OptIdle /\ TreeIdle /\ JitIdle /\ StageIdle /\ MergeIdle

SpecSharding == InitSpecSharding /\ [][NextSharding]_vars

\* the accessors and the unsupported operations of the staged objects
InitSpecStage ==
  InitStage /\ OptIdle /\ TreeIdle /\ JitIdle /\ ShardIdle /\ MergeIdle

SpecStage == InitSpecStage /\ [][NextStage]_vars

\* the merge function on arbitrary leaves
InitSpecMergeFn ==
  InitMergeFn /\ OptIdle /\ TreeIdle /\ JitIdle /\ ShardIdle /\ StageIdle

SpecMergeFn == InitSpecMergeFn /\ [][NextMergeFn]_vars

(***************************************************************************)
(* Claims about the optimizers, checked under SpecOpt.                     *)
(***************************************************************************)
Trainable == DOMAIN State(heap, opt.model, opt.wrt)

AllZero(tree) == \A p \in DOMAIN tree : tree[p].value = 0

\* C1: for both Optimizer and PytreeOptimizer, step is 0 after construction and
\* equals the number of successful update calls made so far: a successful
\* update adds exactly 1, a failed one (and nothing else) leaves it alone.
C1_StepCountsSuccessfulUpdates ==
  /\ heap[opt.step].value = log.O.ok
  /\ heap[popt.step].value = log.P.ok

\* an Optimizer after two successful updates
C1_Witness == log.O.ok = 2 /\ heap[opt.step].value = 2

\* C2 as claimed: for any tx, one update with all-zero gradients leaves every
\* trainable parameter at its value and moves step from 0 to 1.
C2_ZeroGradsFixAnyTx ==
  (log.O.calls = 1 /\ log.O.ok = 1 /\ AllZero(log.O.grads)) =>
     /\ \A p \in Trainable : heap[opt.model[p]].value = model0[p]
     /\ heap[opt.step].value = 1

\* whether tx, in its initial state for params, maps all-zero gradients to
\* all-zero updates
ZeroGradsGiveZeroUpdates(tx, params, kwargs) ==
  AllZero(TxUpdate(tx, [p \in DOMAIN params |-> Array(0)],
                   Pure(TxInit(tx, params)), params, kwargs).updates)

\* C2 as amended: for any tx whose update maps all-zero gradients to all-zero
\* updates from its initial state, one update with all-zero gradients leaves
\* every trainable parameter at its value and moves step from 0 to 1.
C2_ZeroGradsFixZeroPreservingTx ==
  (/\ log.O.calls = 1 /\ log.O.ok = 1 /\ AllZero(log.O.grads)
   /\ ZeroGradsGiveZeroUpdates(opt.tx, [p \in Trainable |-> Array(model0[p])],
                               log.O.txKwargs)) =>
     /\ \A p \in Trainable : heap[opt.model[p]].value = model0[p]
     /\ heap[opt.step].value = 1

\* one update with all-zero gradients on non-zero parameters, under momentum
C2_Witness ==
  /\ log.O.calls = 1 /\ log.O.ok = 1 /\ AllZero(log.O.grads)
  /\ opt.tx = "trace"
  /\ \E p \in Trainable : model0[p] # 0

\* C3: after any sequence of Optimizer.update calls the Variables held by the
\* model, by opt_state and as step are exactly those that existed after
\* construction: update changes held values, never the containers.
C3_VariablesNeverReplaced ==
  {opt.step} \cup Range(opt.opt_state) \cup Range(opt.model) = born.O

\* an update that changed a parameter and an optimizer-state leaf
C3_Witness ==
  /\ log.O.ok >= 1
  /\ \E p \in Trainable : heap[opt.model[p]].value # model0[p]
  /\ \E q \in DOMAIN opt.opt_state : heap[opt.opt_state[q]].value # 0

\* C5: in every reachable state of an Optimizer, opt_state has exactly the tree
\* shape tx.init returns on the filtered model state, and every leaf of it is
\* an OptArray or an OptVariable.
C5_OptStateMirrorsTxInit ==
  /\ DOMAIN opt.opt_state =
       DOMAIN TxInit(opt.tx, Deref(heap, State(heap, opt.model, opt.wrt)))
  /\ \A q \in DOMAIN opt.opt_state :
       heap[opt.opt_state[q]].cls \in {"OptArray", "OptVariable"}

\* an updated Optimizer whose opt_state holds both kinds of leaf
C5_Witness ==
  /\ log.O.ok >= 1
  /\ \E q \in DOMAIN opt.opt_state : heap[opt.opt_state[q]].cls = "OptArray"
  /\ \E q \in DOMAIN opt.opt_state : heap[opt.opt_state[q]].cls = "OptVariable"

\* C6: a PytreeOptimizer on state(model, F) and an Optimizer on the same model
\* with wrt = F and the same tx, each updated once with the same gradients,
\* hold the same parameter values, the same opt_state leaf values and the
\* same step.
C6_PytreeMatchesOptimizer ==
  (log.O.ok = 1 /\ log.P.ok = 1 /\ log.O.grads = log.P.grads) =>
     /\ DOMAIN pparams = Trainable
     /\ \A p \in Trainable : heap[pparams[p]].value = heap[opt.model[p]].value
     /\ DOMAIN popt.opt_state = DOMAIN opt.opt_state
     /\ \A q \in DOMAIN opt.opt_state :
          heap[popt.opt_state[q]].value = heap[opt.opt_state[q]].value
     /\ heap[popt.step].value = heap[opt.step].value

\* both updated once with the same non-zero gradients, under a stateful tx
C6_Witness ==
  /\ log.O.ok = 1 /\ log.P.ok = 1 /\ log.O.grads = log.P.grads
  /\ ~AllZero(log.O.grads)
  /\ opt.tx = "count_trace"

(***************************************************************************)
(* Claims about to_opt_state, checked under SpecTree.                      *)
(***************************************************************************)
\* C4: to_opt_state(T) has the tree shape of T; each Variable leaf of T becomes
\* an OptVariable holding the Variable's value and all of its metadata, each
\* other leaf an OptArray holding the value unchanged; a Variable is one leaf,
\* not a subtree to recurse into.
C4_ToOptStateWrapsEveryLeaf ==
  converted =>
    /\ DOMAIN treeOut = DOMAIN treeIn
    /\ \A p \in DOMAIN treeIn :
         /\ treeOut[p].cls = (IF IsVariable(treeIn[p]) THEN "OptVariable" ELSE "OptArray")
         /\ treeOut[p].value = treeIn[p].value
         /\ treeOut[p].meta = (IF IsVariable(treeIn[p]) THEN treeIn[p].meta ELSE {})

\* a converted tree with a Variable leaf carrying metadata beside a bare leaf
C4_Witness ==
  /\ converted
  /\ \E p \in DOMAIN treeIn : IsVariable(treeIn[p]) /\ treeIn[p].meta # {}
  /\ \E p \in DOMAIN treeIn : ~IsVariable(treeIn[p])

\* an update call just made on the Optimizer with gradients of another shape
\* than the filtered model state, or without a keyword argument tx requires
MismatchedUpdate ==
  /\ log'.O.calls = log.O.calls + 1
  /\ \/ log'.O.tried # Trainable
     \/ opt.tx = "linesearch" /\ "value" \notin DOMAIN log'.O.txKwargs

\* such a call is no success: nothing is written and step stays
NoSuccess ==
  /\ log'.O.ok = log.O.ok
  /\ heap' = heap /\ opt' = opt

\* C13 as claimed: an update with mismatched grads or kwargs ends with the
\* error raised by tx.update, which was called once, and is no success.
C13_MismatchRaisesFromTxUpdate ==
  [][MismatchedUpdate =>
       /\ log'.O.raised = "tx.update"
       /\ log'.O.txCalls = log.O.txCalls + 1
       /\ NoSuccess]_vars

\* C13 as amended: an update with mismatched grads or kwargs ends with the
\* error raised by tx.update or, when tx.update accepts the trees, by the
\* apply_updates that follows it; tx.update was called once and the update is
\* no success.
C13_MismatchRaisesFromCore ==
  [][MismatchedUpdate =>
       /\ log'.O.raised \in {"tx.update", "apply_updates"}
       /\ log'.O.txCalls = log.O.txCalls + 1
       /\ NoSuccess]_vars

\* gradients of another shape went through tx.update and apply_updates raised
C13_Witness ==
  /\ log.O.calls = 1 /\ log.O.tried # Trainable
  /\ log.O.raised = "apply_updates"
  /\ log.O.txCalls = 1 /\ log.O.ok = 0

\* C19: a successful PytreeOptimizer.update leaves in every Variable of the
\* caller's params the leaf at its position of apply_updates(params, updates)
\* and in every opt_state Variable the leaf at its position of the state
\* tx.update returned; the Variables are the ones held before, and every leaf
\* of params is written.
C19_PytreeUpdateWritesBothTreesInPlace ==
  [][log'.P.ok = log.P.ok + 1 =>
       LET p  == Pure(Deref(heap, pparams))
           st == Pure(Deref(heap, popt.opt_state))
           r  == TxUpdate(popt.tx, log'.P.grads, st, p, log'.P.txKwargs)
           np == ApplyUpdates(p, r.updates)
       IN /\ pparams' = pparams /\ popt' = popt
          /\ Len(heap') = Len(heap)
          /\ DOMAIN np = DOMAIN pparams
          /\ \A q \in DOMAIN pparams :
               heap'[pparams[q]] = [heap[pparams[q]] EXCEPT !.value = np[q].value]
          /\ DOMAIN r.state = DOMAIN popt.opt_state
          /\ \A q \in DOMAIN popt.opt_state :
               heap'[popt.opt_state[q]] =
                 [heap[popt.opt_state[q]] EXCEPT !.value = r.state[q].value]]_vars

\* one update with non-zero gradients under a tx that keeps state moved all
\* the parameters
C19_Witness ==
  /\ log.P.ok = 1 /\ log.O.calls = 0
  /\ popt.tx = "count_trace" /\ ~AllZero(log.P.grads)
  /\ \A q \in DOMAIN pparams : heap[pparams[q]].value # model0[q]
  /\ \E q \in DOMAIN popt.opt_state : heap[popt.opt_state[q]].value # 0

\* C22: Optimizer.update changes, of the model, only the Variables wrt
\* selects: every other model Variable is as it was, and the Optimizer's tx,
\* wrt and model are the ones it had.
C22_UpdateLeavesUnselectedVariables ==
  [][log'.O.calls = log.O.calls + 1 =>
       /\ \A p \in Paths \ Trainable : heap'[opt.model[p]] = heap[opt.model[p]]
       /\ opt'.tx = opt.tx /\ opt'.wrt = opt.wrt /\ opt'.model = opt.model]_vars

\* an update under wrt = Param moved kernel and bias and left custom
C22_Witness ==
  /\ log.O.ok = 1 /\ opt.wrt = "Param"
  /\ heap[opt.model["kernel"]].value # model0["kernel"]
  /\ heap[opt.model["bias"]].value # model0["bias"]
  /\ heap[opt.model["custom"]].value = model0["custom"]

\* C23: an update of either optimizer in which tx.update or apply_updates
\* raises changes no parameter, no opt_state leaf and not step.
C23_FailedUpdateWritesNothing ==
  [][\A o \in {"O", "P"} :
       (log'[o].calls = log[o].calls + 1 /\ log'[o].raised # "") =>
          /\ heap' = heap
          /\ opt' = opt /\ popt' = popt /\ pparams' = pparams]_vars

\* after one successful update of the Optimizer, one in which apply_updates
\* raised
C23_Witness ==
  /\ log.O.calls = 2 /\ log.O.ok = 1
  /\ log.O.raised = "apply_updates"
  /\ heap[opt.step].value = 1

\* C20: in Optimizer.update and in PytreeOptimizer.update the extra keyword
\* arguments reach tx.update as plain trees: no leaf of what tx.update was
\* handed is a Variable.
C20_KwargsReachTxAsPlainTrees ==
  \A o \in {"O", "P"} :
    \A k \in DOMAIN log[o].txKwargs : ~IsVariable(log[o].txKwargs[k])

(***************************************************************************)
(* Claims about the lifted wrappers, checked under SpecJit.                *)
(***************************************************************************)
\* the positions of a call's arguments at which a node occurs that is passed
\* more than once
Aliased(fr) ==
  {i \in 1..Len(fr.args) : \E j \in 1..Len(fr.args) : j # i /\ fr.args[j] = fr.args[i]}

\* C7: when a jit-wrapped function returns one of its arguments, the call
\* returns the very object the caller passed at that position, and that
\* object holds what the body's object held when the body returned.
C7_JitReturnsCallersObject ==
  [][(/\ frames # <<>>
      /\ Top.kind = "call" /\ Top.pc = "merged"
      /\ Top.out \in 1..Len(Top.args)
      /\ frames' = Pop(frames))
       => /\ ~ret'.raised
          /\ ret'.result = Top.args[Top.out]
          /\ objs'[ret'.result] = objs[Top.inner[Top.out]]]_vars

\* a top-level call of f returned the caller's node 1, which the body mutated
C7_Witness ==
  /\ frames = <<>> /\ nCalls = 1
  /\ ret.kind = "call" /\ ~ret.raised /\ ret.result = 1
  /\ objs[1] = 1

\* C8: when a node is passed more than once to a jit- or shard_map-wrapped
\* call, the body sees one object at all of its positions, and after the merge
\* each of those positions is the caller's original node, holding what the
\* body's object holds.
C8_AliasedArgumentsStayOneObject ==
  \A n \in 1..Len(frames) :
    LET fr == frames[n]
    IN fr.kind \in {"call", "shard_map"} =>
         /\ fr.inner # <<>> =>
              \A i \in Aliased(fr), j \in Aliased(fr) :
                 fr.args[i] = fr.args[j] => fr.inner[i] = fr.inner[j]
         /\ fr.pc = "merged" =>
              \A i \in Aliased(fr) :
                 /\ fr.merged[i] = fr.args[i]
                 /\ objs[fr.args[i]] = objs[fr.inner[i]]

\* g was called with the caller's node 1 twice, mutated it and has merged
C8_Witness ==
  /\ Len(frames) = 1
  /\ Top.kind = "shard_map" /\ Top.pc = "merged"
  /\ Top.args = <<1, 1>> /\ Top.steps > 0
  /\ objs[1] = 1

\* the token of a call in progress: the tag of the context it opened
TokenOf(fr) ==
  LET i == CHOOSE j \in 1..Len(ctxs) : ctxs[j].owner = fr.id IN ctxs[i].tag

C10_ContextReleasedOnEveryExit ==
  /\ Len(ctxs) = Len(frames)
  /\ \A i \in 1..Len(frames) : ctxs[i].owner = frames[i].id

\* a Compiled was called after a lower that returned, and raised
C10_Witness ==
  /\ frames = <<>> /\ ctxs = <<>>
  /\ nCalls = 2
  /\ ret.kind = "compiled" /\ ret.raised

(***************************************************************************)
(* Claims about StateSharding, checked under SpecSharding.                 *)
(***************************************************************************)
\* the positions of the pairs whose filter matches (path, variable)
Matching(self, path, variable) ==
  {i \in 1..Len(self.filters) : ToPredicate(self.filters[i], path, variable)}

\* C11: map_prefix returns the sharding of the first pair, in order, whose
\* filter matches (path, variable), whatever later pairs match, and raises an
\* error carrying the path and the variable exactly when no filter matches.
C11_MapPrefixFirstMatchWins ==
  shOut.op = "map_prefix" =>
    LET m == Matching(sharding, shOut.path, shOut.variable)
    IN /\ (shOut.out.raised # "") <=> (m = {})
       /\ m = {} => /\ shOut.out.path = shOut.path
                    /\ shOut.out.variable = shOut.variable
       /\ m # {} =>
            \E i \in m : /\ \A j \in m : i <= j
                          /\ shOut.out.value = sharding.shardings[i]

\* both filters match the kernel, with different shardings: the first is
\* returned
C11_Witness ==
  /\ shOut.op = "map_prefix" /\ shOut.path = "kernel"
  /\ sharding.filters = <<"Param", "ParamOrCustom">>
  /\ sharding.shardings = <<"P(data)", "P(None)">>
  /\ shOut.out.raised = "" /\ shOut.out.value = "P(data)"

\* C12: two StateShardings are equal exactly when their filter tuples and
\* their sharding tuples are equal, in order; nothing else is equal to a
\* StateSharding; equal StateShardings have equal hashes.
C12_EqualityIsStructuralAndHashAgrees ==
  LET same == /\ other.type = "StateSharding"
              /\ Len(other.filters) = Len(sharding.filters)
              /\ \A i \in 1..Len(sharding.filters) :
                   /\ other.filters[i] = sharding.filters[i]
                   /\ other.shardings[i] = sharding.shardings[i]
  IN /\ shOut.op = "eq" => (shOut.out <=> same)
     /\ (shOut.op = "hash" /\ same) => shOut.out[1] = shOut.out[2]

\* the same two pairs in the other order: not equal
C12_Witness ==
  /\ shOut.op = "eq" /\ ~shOut.out
  /\ other.type = "StateSharding"
  /\ Len(sharding.filters) = 2
  /\ sharding.filters[1] # sharding.filters[2]
  /\ other.filters = <<sharding.filters[2], sharding.filters[1]>>
  /\ other.shardings = <<sharding.shardings[2], sharding.shardings[1]>>

(***************************************************************************)
(* Claims about the phases of a wrapped call, checked under SpecJit.       *)
(***************************************************************************)
\* the steps of a call of a wrapped function that runs the user's function,
\* in order
CallPhases ==
  <<"to_tree", "from_tree(is_inner=True)", "f", "to_tree",
    "from_tree(is_inner=False)">>

\* how far along CallPhases a call is at each of its positions
PhasesDone(pc) ==
  CASE pc = "entered" -> 0
    [] pc = "split" -> 1
    [] pc = "body" -> 2
    [] pc = "returned" -> 3
    [] pc = "called" -> 4
    [] pc = "merged" -> 5

\* C14: a call of a jit-wrapped function goes through split, compiled call
\* (inner merge with is_inner=True, user function, inner split; once), merge
\* with is_inner=False and return, in this order: what a call has done so far
\* is always an initial part of that sequence, and it returns after all of it.
C14_JitCallPhasesInOrder ==
  [][/\ \A n \in 1..Len(frames) :
         (frames[n].kind = "call" /\ frames[n].pc # "error") =>
            /\ frames[n].trace = SubSeq(CallPhases, 1, PhasesDone(frames[n].pc))
            /\ frames[n].trace # <<>> => Len(frames[n].pure) = Len(frames[n].args)
     /\ (/\ frames # <<>> /\ Top.kind = "call"
         /\ frames' = Pop(frames) /\ ~ret'.raised) =>
            Top.trace = CallPhases]_vars

\* a call of f has returned after a merge
C14_Witness ==
  /\ frames = <<>> /\ nCalls = 2
  /\ ret.kind = "call" /\ ~ret.raised /\ ret.result # 0

\* C15: a call of the shard_map-wrapped function invokes the underlying
\* primitive exactly once between its split and its merge, whatever calls were
\* made before: at the merge the call's trace holds one run of the mapped
\* function, after the call's own split.
C15_ShardMapInvokesPrimitiveOncePerCall ==
  \A n \in 1..Len(frames) :
    LET fr   == frames[n]
        runs == {i \in 1..Len(fr.trace) : fr.trace[i] = "f"}
    IN (fr.kind = "shard_map" /\ fr.pc = "merged") =>
         /\ Cardinality(runs) = 1
         /\ fr.trace[1] = "to_tree"
         /\ \A i \in runs : 1 < i /\ i < Len(fr.trace)

\* the second of two calls of g has merged
C15_Witness ==
  /\ Len(frames) = 1 /\ nCalls = 2
  /\ Top.kind = "shard_map" /\ Top.pc = "merged"
  /\ artifacts = {}

(***************************************************************************)
(* Claims about the staged objects, checked under SpecStage.               *)
(***************************************************************************)
\* C16: an inspection accessor of Lowered or Compiled returns what the same
\* accessor of the underlying artifact returns for the same arguments, and
\* returns None, without raising, when the artifact has nothing to give.
C16_AccessorsPassThrough ==
  stOut.op \in Accessors =>
    /\ stOut.res = UnderlyingCall(underlying, stOut.op, stOut.args)
    /\ underlying[stOut.op] = "None" =>
         stOut.res.raised = "" /\ stOut.res.out = <<"None">>

\* Lowered.as_text with debug information gave the artifact's text for it
C16_Witness ==
  /\ stOut.op = <<"Lowered", "as_text">>
  /\ stOut.args = [dialect |-> "hlo", debug_info |-> TRUE]
  /\ stOut.res.out = <<"text", stOut.args>>
  /\ underlying[<<"Compiled", "as_text">>] = "None"

\* C17: Lowered.from_flat_info and Compiled.call raise NotImplementedError
\* for every input, return nothing and change nothing.
C17_UnsupportedOperationsRaise ==
  [][stOut'.op \in UnsupportedOps =>
       /\ stOut'.res.raised = "NotImplementedError"
       /\ stOut'.res.out = <<>>
       /\ underlying' = underlying]_vars

\* Compiled.call without arguments has raised
C17_Witness ==
  /\ stOut.op = <<"Compiled", "call">> /\ stOut.args = <<>>
  /\ stOut.res.raised = "NotImplementedError"

\* C21: reading args_info of a Compiled, as of a Lowered, returns the
\* args_info of the underlying artifact and does not raise.
C21_ArgsInfoPassesThrough ==
  stOut.op \in ArgsInfoProps =>
    /\ stOut.res.raised = ""
    /\ stOut.res = UnderlyingCall(underlying, stOut.op, <<>>)

(***************************************************************************)
(* Claims about the merge function, checked under SpecMergeFn.             *)
(***************************************************************************)
\* C18: the merge function raises, with the path and the type of the leaf in
\* the error, when the leaf is no NodeStates, and otherwise returns the node
\* unflatten makes of the leaf's descriptor and all of its state trees.
C18_MergeFnChecksLeafType ==
  mergeOut.leaf # <<>> =>
    IF mergeOut.leaf.type = "NodeStates"
      THEN /\ mergeOut.res.raised = ""
           /\ mergeOut.res.out.type = mergeOut.leaf.graphdef
           /\ mergeOut.res.out.states = mergeOut.leaf.states
      ELSE /\ mergeOut.res.raised = "ValueError"
           /\ mergeOut.res.type = mergeOut.leaf.type
           /\ mergeOut.res.path = mergeOut.path

\* a node with two state trees was rebuilt from both
C18_Witness ==
  /\ mergeOut.leaf # <<>>
  /\ mergeOut.leaf.type = "NodeStates"
  /\ Len(mergeOut.leaf.states) = 2
  /\ mergeOut.res.out.states = mergeOut.leaf.states

\* C24: eval_shape does not mutate the caller's objects: while a call of
\* eval_shape is in progress, and when it ends, every object the caller passed
\* holds the state it held, whatever the body and the merge write.
C24_EvalShapeLeavesCallersObjects ==
  [][\A n \in 1..Len(frames) :
       frames[n].kind = "eval_shape" =>
          \A i \in Range(frames[n].args) : objs'[i] = objs[i]]_vars

\* the body mutated its argument and the merge wrote the new state into the
\* clone, not into the caller's node
C24_Witness ==
  /\ Len(frames) = 1
  /\ Top.kind = "eval_shape" /\ Top.pc = "merged" /\ Top.steps > 0
  /\ Top.passed[1] # Top.args[1]
  /\ objs[Top.passed[1]] # objs[Top.args[1]]

====
